---- MODULE Spec2Model ----
(***************************************************************************)
(* SpiderScan (src/spiderscan.py): the orchestration of external tools.    *)
(*                                                                         *)
(* The program is modelled as threads with call stacks.  The main thread   *)
(* runs the function named by `entry` (main, or any function of the module *)
(* called directly); the two pool threads run the tasks process_target     *)
(* submits to its ThreadPoolExecutor.  External commands are the           *)
(* environment: each execution ends with one of four outcomes (exit status *)
(* zero or not, captured output decodable or not) and has the effect on    *)
(* the file system that the command has when it succeeds.                  *)
(*                                                                         *)
(* Files are sequences of characters over {"u", "CR", "LF"}; text-mode     *)
(* reads translate newlines as Python's universal-newline mode does, on a  *)
(* POSIX platform (os.linesep = "\n").                                     *)
(***************************************************************************)
EXTENDS Naturals, Sequences, FiniteSets

VARIABLES
    entry,      \* the function the main thread was started with
    argv,       \* the options given on the command line
    stack,      \* thread -> call stack (sequence of frames, top last)
    exc,        \* thread -> exception propagating in it ("none" if none)
    fut,        \* task -> future: [st, exc, on]
    fs,         \* the file system and PATH
    urls0,      \* <output_dir>/urls.txt at program start
    toolWrote,  \* what the discovery tool last wrote to temp_urls.txt
    calls,      \* command -> number of run_command calls made with it
    checkRc,    \* the return codes of the check command's executions, in order
    log,        \* the kinds of records run_nuclei and main have logged
    exitCode,   \* <<>> while the process runs, <<status>> once it has exited
    hist,       \* the steps process_target has completed, in order
    outcome     \* call -> "none" | "returned" | the exception it raised

vars == <<entry, argv, stack, exc, fut, fs, urls0, toolWrote, calls, checkRc, log, exitCode, hist, outcome>>

----------------------------------------------------------------------------
(* Bounds and program constants *)

\* longest file content, in characters
MaxLen == 2

\* stop_max_attempt_number=4
stop_max_attempt_number_plus_one == 3 + 1

\* @retry(stop_max_attempt_number=3, ...)
stop_max_attempt_number == 3

----------------------------------------------------------------------------
(* Names *)

Workers == {"w1", "w2"}

Threads == {"main"} \cup Workers

Tasks == {"collect", "scan"}

\* run_command's argument, one per command line the program builds
Cmds == {"git_clone_ParamSpider", "pip_install", "git_clone_templates",
         "go_install", "paramspider", "nuclei"}

CloneIds == {"clone_ParamSpider", "clone_templates"}

\* a call: the function called, with the argument that tells calls apart
Ids == {"main", "process_target", "check_dependency", "collect_urls",
        "run_nuclei"} \cup CloneIds \cup Cmds

\* the calls the main thread can be started with: main itself, or one of
\* the functions below process_target called on its own
Entries == {"main", "check_dependency", "collect_urls", "run_nuclei"} \cup CloneIds

FnOf(id) ==
    IF id \in Cmds THEN "run_command"
    ELSE IF id \in CloneIds THEN "clone_repo"
    ELSE id

Outcomes == {"ok", "ok_undecodable", "fail", "fail_undecodable"}

Succeeded(o) == o \in {"ok", "ok_undecodable"}

\* the command's exit status, zero or not
ExitStatus(o) == IF Succeeded(o) THEN "zero" ELSE "nonzero"

Chars == {"u", "CR", "LF"}

RECURSIVE SeqsUpTo(_)
SeqsUpTo(n) ==
    IF n = 0 THEN {<<>>}
    ELSE LET shorter == SeqsUpTo(n - 1)
         IN  shorter \cup {Append(s, c) : s \in shorter, c \in Chars}

Contents == SeqsUpTo(MaxLen)

Absent == [exists |-> FALSE, data |-> <<>>]

File(d) == [exists |-> TRUE, data |-> d]

StaleUrls == File(<<"u", "LF">>)

StaleTemp == File(<<"u">>)

Frame(id, pc) == [id |-> id, pc |-> pc, n |-> 0, loc |-> <<>>]

NoFuture == [st |-> "none", exc |-> "none", on |-> "none"]

----------------------------------------------------------------------------
(* Text files: open(..., 'r').readlines() and open(..., 'w').writelines() *)

os_linesep == <<"LF">>

\* What a text-mode read returns for the stored characters: "\r\n" and a
\* lone "\r" both become "\n" (newline=None).
RECURSIVE ReadText(_)
ReadText(s) ==
    IF s = <<>> THEN <<>>
    ELSE IF Head(s) = "CR"
         THEN IF Len(s) >= 2 /\ s[2] = "LF"
              THEN <<"LF">> \o ReadText(SubSeq(s, 3, Len(s)))
              ELSE <<"LF">> \o ReadText(Tail(s))
         ELSE <<Head(s)>> \o ReadText(Tail(s))

\* What a text-mode write stores: every "\n" becomes os.linesep.
RECURSIVE WriteText(_)
WriteText(s) ==
    IF s = <<>> THEN <<>>
    ELSE (IF Head(s) = "LF" THEN os_linesep ELSE <<Head(s)>>) \o WriteText(Tail(s))

\* The lines of a text, each with its terminator; the last may have none.
RECURSIVE SplitLines(_, _)
SplitLines(cur, rest) ==
    IF rest = <<>> THEN (IF cur = <<>> THEN <<>> ELSE <<cur>>)
    ELSE IF Head(rest) = "LF"
         THEN <<Append(cur, "LF")>> \o SplitLines(<<>>, Tail(rest))
         ELSE SplitLines(Append(cur, Head(rest)), Tail(rest))

readlines(data) == SplitLines(<<>>, ReadText(data))

RECURSIVE Concat(_)
Concat(ls) == IF ls = <<>> THEN <<>> ELSE Head(ls) \o Concat(Tail(ls))

\* open(txt_file, 'a') in place of 'w'
writelinesAppending(old, ls) == old \o WriteText(Concat(ls))

\* open(txt_file, 'w'): the old content is truncated away
writelines(old, ls) == WriteText(Concat(ls))

\* A line without its terminator
Body(l) == IF l # <<>> /\ l[Len(l)] = "LF" THEN SubSeq(l, 1, Len(l) - 1) ELSE l

\* The lines a reader of the file sees, terminators aside
Lines(data) == [i \in 1..Len(readlines(data)) |-> Body(readlines(data)[i])]

----------------------------------------------------------------------------
(* Call stacks *)

Running(t) == stack[t] # <<>>

Top(t) == stack[t][Len(stack[t])]

\* thread t is about to execute the step pc of a call of function fn
At(t, fn, pc) ==
    /\ Running(t)
    /\ exc[t] = "none"
    /\ FnOf(Top(t).id) = fn
    /\ Top(t).pc = pc

WithTop(t, f) == [stack EXCEPT ![t] = [@ EXCEPT ![Len(@)] = f]]

Goto(t, pc) == WithTop(t, [Top(t) EXCEPT !.pc = pc])

\* call `callee`; the caller resumes at `cont` when it returns
CallFrom(t, cont, callee) ==
    [stack EXCEPT ![t] = Append([@ EXCEPT ![Len(@)].pc = cont], Frame(callee, "start"))]

Popped(t) == [stack EXCEPT ![t] = SubSeq(@, 1, Len(@) - 1)]

Unfinished(k) == fut[k].st \in {"pending", "running"}

\* the future of the task whose function was the last frame of worker t
Settle(t, e) ==
    [k \in Tasks |->
        IF fut[k].st = "running" /\ fut[k].on = t
        THEN [st |-> "done", exc |-> e, on |-> t]
        ELSE fut[k]]

\* A function returns to its caller; a task's return completes its future.
Return(t) ==
    /\ Running(t)
    /\ exc[t] = "none"
    /\ Top(t).pc = "return"
    /\ stack' = Popped(t)
    /\ outcome' = [outcome EXCEPT ![Top(t).id] = "returned"]
    /\ fut' = IF t \in Workers /\ Len(stack[t]) = 1 THEN Settle(t, "none") ELSE fut
    /\ UNCHANGED <<entry, argv, exc, fs, urls0, toolWrote, calls, checkRc, log,
                   exitCode, hist>>

\* An exception leaves a function that does not handle it.  Leaving
\* process_target leaves its `with` block: the executor is shut down and
\* its tasks are waited for.  An exception leaving a task is stored in
\* the task's future; one leaving the function the thread was started
\* with stays raised.
Unwind(t) ==
    /\ Running(t)
    /\ exc[t] # "none"
    /\ Top(t).id # "main"
    /\ Top(t).id = "process_target" => \A k \in Tasks : ~Unfinished(k)
    /\ stack' = Popped(t)
    /\ outcome' = [outcome EXCEPT ![Top(t).id] = exc[t]]
    /\ IF t \in Workers /\ Len(stack[t]) = 1
       THEN /\ fut' = Settle(t, exc[t])
            /\ exc' = [exc EXCEPT ![t] = "none"]
       ELSE UNCHANGED <<fut, exc>>
    /\ UNCHANGED <<entry, argv, fs, urls0, toolWrote, calls, checkRc,
                   log, exitCode, hist>>

----------------------------------------------------------------------------
(* External commands *)

\* How an execution of command c can end in the file system f: a script or
\* a program that is not there cannot succeed.
PossibleOutcomes(c, f) ==
    IF \/ c \in {"pip_install", "paramspider"} /\ ~f.psDir
       \/ c = "nuclei" /\ ~f.nucleiBin
    THEN {"fail", "fail_undecodable"}
    ELSE Outcomes

\* What the discovery tool may leave in temp_urls.txt (-o temp_urls.txt);
\* Absent stands for an execution that writes nothing.
WriteChoices(c) ==
    IF c = "paramspider" THEN {Absent} \cup {File(d) : d \in Contents} ELSE {Absent}

\* The file system after an execution of c that ended with o, wrote w and,
\* for an install, put the tool on PATH or not (onPath).
Effect(c, o, w, onPath, f) ==
    IF c = "paramspider"
    THEN IF w.exists THEN [f EXCEPT !.temp = w] ELSE f
    ELSE IF ~Succeeded(o) THEN f
    ELSE IF c = "git_clone_ParamSpider" THEN [f EXCEPT !.psDir = TRUE]
    ELSE IF c = "git_clone_templates" THEN [f EXCEPT !.tplDir = TRUE]
    ELSE IF c = "go_install" THEN [f EXCEPT !.nucleiBin = f.nucleiBin \/ onPath]
    ELSE f

\* The exception the body of run_command ends with (lines 42-49): check=True
\* raises CalledProcessError on a non-zero status, and .decode() raises
\* UnicodeDecodeError on output that is not UTF-8, also inside the handler.
BodyException(o) ==
    IF o = "ok" THEN "none"
    ELSE IF o = "fail" THEN "CalledProcessError"
    ELSE "UnicodeDecodeError"

----------------------------------------------------------------------------
(* run_command, lines 39-49 *)

\* one attempt too many
ShouldStopLate(n) == n > stop_max_attempt_number

\* retrying's stop_after_attempt: no further attempt after attempt n
ShouldStop(n) == n >= stop_max_attempt_number

\* What the retry wrapper does with an attempt n that raised: sleep and
\* try again, or re-raise the attempt's exception (wrap_exception=False).
AfterFailure(n) == IF ShouldStop(n) THEN "raise" ELSE "wait"

\* One attempt: the command runs, and the retry wrapper decides what
\* follows.  Top(t).n counts the attempts; Top(t).loc records the exit
\* status of each and the waits between them.
run_command_attempt(t) ==
    /\ At(t, "run_command", "start")
    /\ LET c == Top(t).id
           n == Top(t).n + 1
       IN  \E o \in PossibleOutcomes(c, fs), w \in WriteChoices(c), onPath \in BOOLEAN :
             /\ c # "go_install" => onPath
             /\ fs' = Effect(c, o, w, onPath, fs)
             /\ toolWrote' = IF c = "paramspider" /\ w.exists THEN w ELSE toolWrote
             /\ LET f == [Top(t) EXCEPT !.n = n, !.loc = Append(@, ExitStatus(o))]
                IN  IF BodyException(o) = "none"
                    THEN /\ stack' = WithTop(t, [f EXCEPT !.pc = "return"])
                         /\ exc' = exc
                    ELSE /\ stack' = WithTop(t, [f EXCEPT !.pc = AfterFailure(n)])
                         /\ exc' = IF AfterFailure(n) = "raise"
                                   THEN [exc EXCEPT ![t] = BodyException(o)]
                                   ELSE exc
    /\ UNCHANGED <<entry, argv, fut, urls0, calls, checkRc, log, exitCode,
                   hist, outcome>>

\* time.sleep(wait_fixed) between two attempts
run_command_wait(t) ==
    /\ At(t, "run_command", "wait")
    /\ stack' = WithTop(t, [Top(t) EXCEPT !.pc = "start", !.loc = Append(@, "wait")])
    /\ UNCHANGED <<entry, argv, exc, fut, fs, urls0, toolWrote, calls, checkRc,
                   log, exitCode, hist, outcome>>

\* run_command(c) called from the step the caller is at
CallCommand(t, cont, c) ==
    /\ stack' = CallFrom(t, cont, c)
    /\ calls' = [calls EXCEPT ![c] = @ + 1]

UnchangedByCall == <<entry, argv, exc, fut, fs, urls0, toolWrote, checkRc,
                     log, exitCode, hist, outcome>>

----------------------------------------------------------------------------
(* check_dependency, lines 51-55 *)

\* the shell's status for `nuclei -version`: 0, or 127 (command not found)
CheckStatus(f) == IF f.nucleiBin THEN 0 ELSE 127

\* installs when the check succeeded
NeedsInstallInverted(rc) == rc = 0

NeedsInstall(rc) == rc # 0

\* subprocess.call runs the check once; a non-zero status hands the install
\* command to run_command, and nothing follows the install.
check_dependency(t) ==
    /\ At(t, "check_dependency", "start")
    /\ checkRc' = Append(checkRc, CheckStatus(fs))
    /\ IF NeedsInstall(CheckStatus(fs))
       THEN CallCommand(t, "return", "go_install")
       ELSE /\ stack' = Goto(t, "return")
            /\ calls' = calls
    /\ UNCHANGED <<entry, argv, exc, fut, fs, urls0, toolWrote, log, exitCode,
                   hist, outcome>>

----------------------------------------------------------------------------
(* clone_repo, lines 57-62 *)

CloneDir(id) == IF id = "clone_ParamSpider" THEN "psDir" ELSE "tplDir"

CloneCmd(id) ==
    IF id = "clone_ParamSpider" THEN "git_clone_ParamSpider" ELSE "git_clone_templates"

\* clones whether or not the directory is there
MustCloneAlways(id, f) == TRUE

\* not Path(clone_dir).exists()
MustClone(id, f) == ~f[CloneDir(id)]

\* Top(t).loc keeps what Path(clone_dir).exists() returned.
clone_repo(t) ==
    /\ At(t, "clone_repo", "start")
    /\ LET id == Top(t).id
           seen == [Top(t) EXCEPT !.loc = <<fs[CloneDir(id)]>>]
       IN  IF MustClone(id, fs)
           THEN /\ stack' = [stack EXCEPT ![t] =
                                 Append(WithTop(t, [seen EXCEPT !.pc = "return"])[t],
                                        Frame(CloneCmd(id), "start"))]
                /\ calls' = [calls EXCEPT ![CloneCmd(id)] = @ + 1]
           ELSE /\ stack' = WithTop(t, [seen EXCEPT !.pc = "return"])
                /\ calls' = calls
    /\ UNCHANGED UnchangedByCall

----------------------------------------------------------------------------
(* collect_urls, lines 64-80 *)

\* line 68: the discovery tool is run through run_command
collect_urls_start(t) ==
    /\ At(t, "collect_urls", "start")
    /\ CallCommand(t, "read", "paramspider")
    /\ UNCHANGED UnchangedByCall

\* lines 72-73: open(temp_file, 'r').readlines() into the local `urls`
collect_urls_read(t) ==
    /\ At(t, "collect_urls", "read")
    /\ IF fs.temp.exists
       THEN /\ stack' = WithTop(t, [Top(t) EXCEPT !.pc = "write",
                                                   !.loc = readlines(fs.temp.data)])
            /\ exc' = exc
       ELSE /\ stack' = Goto(t, "raise")
            /\ exc' = [exc EXCEPT ![t] = "FileNotFoundError"]
    /\ UNCHANGED <<entry, argv, fut, fs, urls0, toolWrote, calls, checkRc, log,
                   exitCode, hist, outcome>>

\* lines 75-77: open(<output_dir>/urls.txt, 'w').writelines(urls); the open
\* fails when the output directory is not a directory
collect_urls_write(t) ==
    /\ At(t, "collect_urls", "write")
    /\ IF fs.outDir = "dir"
       THEN /\ fs' = [fs EXCEPT !.urls = File(writelines(fs.urls.data, Top(t).loc))]
            /\ stack' = Goto(t, "remove")
            /\ exc' = exc
       ELSE /\ fs' = fs
            /\ stack' = Goto(t, "raise")
            /\ exc' = [exc EXCEPT ![t] = IF fs.outDir = "absent"
                                          THEN "FileNotFoundError"
                                          ELSE "NotADirectoryError"]
    /\ UNCHANGED <<entry, argv, fut, urls0, toolWrote, calls, checkRc,
                   log, exitCode, hist, outcome>>

\* os.remove(txt_file): the wrong file
RemovedUrls(f) == [f EXCEPT !.urls = Absent]

\* no os.remove at all
RemovedNothing(f) == f

\* os.remove(temp_file)
Removed(f) == [f EXCEPT !.temp = Absent]

\* lines 79-80: os.remove(temp_file)
collect_urls_remove(t) ==
    /\ At(t, "collect_urls", "remove")
    /\ fs' = Removed(fs)
    /\ stack' = Goto(t, "return")
    /\ log' = log
    /\ UNCHANGED <<entry, argv, exc, fut, urls0, toolWrote, calls, checkRc,
                   exitCode, hist, outcome>>

----------------------------------------------------------------------------
(* run_nuclei, lines 82-98 *)

\* checks the URL file only
PreconditionUrlOnly(f) ==
    IF ~f.urls.exists THEN "url_file_not_found" ELSE "ok"

\* checks the template directory only
PreconditionTemplatesOnly(f) ==
    IF ~f.tplDir THEN "template_directory_not_found" ELSE "ok"

\* lines 87-94: the first check that fails, or "ok"
Precondition(f) ==
    IF ~f.urls.exists THEN "url_file_not_found"
    ELSE IF ~f.tplDir THEN "template_directory_not_found"
    ELSE "ok"

\* Top(t).loc keeps what the two Path(...).exists() tests saw.
run_nuclei(t) ==
    /\ At(t, "run_nuclei", "start")
    /\ LET seen == [Top(t) EXCEPT !.loc = <<fs.urls.exists, fs.tplDir>>]
       IN  IF Precondition(fs) = "ok"
           THEN /\ stack' = [stack EXCEPT ![t] =
                                 Append(WithTop(t, [seen EXCEPT !.pc = "return"])[t],
                                        Frame("nuclei", "start"))]
                /\ calls' = [calls EXCEPT !["nuclei"] = @ + 1]
                /\ UNCHANGED <<log, exc>>
           ELSE /\ log' = log \cup {Precondition(fs)}
                /\ stack' = WithTop(t, [seen EXCEPT !.pc = "raise"])
                /\ exc' = [exc EXCEPT ![t] = "FileNotFoundError"]
                /\ calls' = calls
    /\ UNCHANGED <<entry, argv, fut, fs, urls0, toolWrote, checkRc,
                   exitCode, hist, outcome>>

----------------------------------------------------------------------------
(* process_target, lines 100-118 *)

\* submits the scan before the collection
ProcessTargetOrderScanFirst ==
    <<"start", "clone_ParamSpider", "pip_install", "clone_templates",
      "check_dependency", "submit_scan", "await_scan", "submit_collect",
      "await_collect", "shutdown", "return">>

\* submits both tasks, then waits for both
ProcessTargetOrderSubmitBoth ==
    <<"start", "clone_ParamSpider", "pip_install", "clone_templates",
      "check_dependency", "submit_collect", "submit_scan", "await_collect",
      "await_scan", "shutdown", "return">>

\* starts the collection before the dependency check
ProcessTargetOrderCollectEarly ==
    <<"start", "clone_ParamSpider", "pip_install", "clone_templates",
      "submit_collect", "await_collect", "check_dependency", "submit_scan",
      "await_scan", "shutdown", "return">>

\* goes from the first clone straight to the second
ProcessTargetOrderNoPip ==
    <<"start", "clone_ParamSpider", "clone_templates", "check_dependency",
      "submit_collect", "await_collect", "submit_scan", "await_scan",
      "shutdown", "return">>

\* the statements of process_target in program order; "start" is the mkdir
\* of line 103 and "shutdown" the end of the `with` block
ProcessTargetOrder ==
    <<"start", "clone_ParamSpider", "pip_install", "clone_templates",
      "check_dependency", "submit_collect", "await_collect", "submit_scan",
      "await_scan", "shutdown", "return">>

After(pc) ==
    ProcessTargetOrder[(CHOOSE i \in 1..Len(ProcessTargetOrder) :
                            ProcessTargetOrder[i] = pc) + 1]

TaskOf(pc) == IF pc \in {"submit_collect", "await_collect"} THEN "collect" ELSE "scan"

TaskFn(k) == IF k = "collect" THEN "collect_urls" ELSE "run_nuclei"

\* line 103: Path(output_dir).mkdir(parents=True, exist_ok=True)
process_target_mkdir(t) ==
    /\ At(t, "process_target", "start")
    /\ IF fs.outDir = "file"
       THEN /\ stack' = Goto(t, "raise")
            /\ exc' = [exc EXCEPT ![t] = "FileExistsError"]
            /\ UNCHANGED <<fs, hist>>
       ELSE /\ stack' = Goto(t, After("start"))
            /\ fs' = [fs EXCEPT !.outDir = "dir"]
            /\ hist' = Append(hist, "mkdir")
            /\ exc' = exc
    /\ UNCHANGED <<entry, argv, fut, urls0, toolWrote, calls, checkRc, log,
                   exitCode, outcome>>

\* lines 106-109: the four setup calls
process_target_setup(t) ==
    /\ \E pc \in {"clone_ParamSpider", "pip_install", "clone_templates",
                  "check_dependency"} :
          /\ At(t, "process_target", pc)
          /\ hist' = Append(hist, pc)
          /\ IF pc = "pip_install"
             THEN CallCommand(t, After(pc), pc)
             ELSE /\ stack' = CallFrom(t, After(pc), pc)
                  /\ calls' = calls
    /\ UNCHANGED <<entry, argv, exc, fut, fs, urls0, toolWrote, checkRc, log,
                   exitCode, outcome>>

\* lines 113 and 117: executor.submit
process_target_submit(t) ==
    /\ \E pc \in {"submit_collect", "submit_scan"} :
          /\ At(t, "process_target", pc)
          /\ hist' = Append(hist, pc)
          /\ fut' = [fut EXCEPT ![TaskOf(pc)] = [st |-> "pending", exc |-> "none", on |-> "none"]]
          /\ stack' = Goto(t, After(pc))
    /\ UNCHANGED <<entry, argv, exc, fs, urls0, toolWrote, calls, checkRc, log,
                   exitCode, outcome>>

\* goes on without the result
ResultReadyAtOnce(k) == TRUE

\* Future.result() blocks until the task has finished
ResultReady(k) == fut[k].st = "done"

\* lines 114 and 118: future.result() returns, or raises the task's exception
process_target_await(t) ==
    /\ \E pc \in {"await_collect", "await_scan"} :
          /\ At(t, "process_target", pc)
          /\ ResultReady(TaskOf(pc))
          /\ IF fut[TaskOf(pc)].exc = "none"
             THEN /\ stack' = Goto(t, After(pc))
                  /\ hist' = Append(hist, IF pc = "await_collect"
                                          THEN "collect_done" ELSE "scan_done")
                  /\ exc' = exc
             ELSE /\ stack' = Goto(t, "raise")
                  /\ exc' = [exc EXCEPT ![t] = fut[TaskOf(pc)].exc]
                  /\ hist' = hist
    /\ UNCHANGED <<entry, argv, fut, fs, urls0, toolWrote, calls, checkRc, log,
                   exitCode, outcome>>

\* the end of the `with` block: executor.shutdown(wait=True)
process_target_shutdown(t) ==
    /\ At(t, "process_target", "shutdown")
    /\ \A k \in Tasks : ~Unfinished(k)
    /\ stack' = Goto(t, After("shutdown"))
    /\ UNCHANGED <<entry, argv, exc, fut, fs, urls0, toolWrote, calls, checkRc,
                   log, exitCode, hist, outcome>>

\* A pool thread takes a submitted task.  The pool starts its threads in
\* order, a second one only once the first exists.
worker_run(t, k) ==
    /\ t \in Workers
    /\ ~Running(t)
    /\ t = "w2" => \E j \in Tasks : fut[j].on = "w1"
    /\ fut[k].st = "pending"
    /\ fut' = [fut EXCEPT ![k] = [st |-> "running", exc |-> "none", on |-> t]]
    /\ stack' = [stack EXCEPT ![t] = <<Frame(TaskFn(k), "start")>>]
    /\ UNCHANGED <<entry, argv, exc, fs, urls0, toolWrote, calls, checkRc, log,
                   exitCode, hist, outcome>>

----------------------------------------------------------------------------
(* main, lines 120-138 *)

\* lines 122-134: parse_args demands -d/--domain and exits with status 2
\* on a usage error (argparse's parser.error); otherwise process_target is
\* called inside the try block.
main_start(t) ==
    /\ At(t, "main", "start")
    /\ IF "--domain" \notin argv
       THEN /\ stack' = Popped(t)
            /\ exitCode' = <<2>>
            /\ outcome' = [outcome EXCEPT !["main"] = "SystemExit"]
       ELSE /\ stack' = CallFrom(t, "completed", "process_target")
            /\ UNCHANGED <<exitCode, outcome>>
    /\ UNCHANGED <<entry, argv, exc, fut, fs, urls0, toolWrote, calls, checkRc,
                   log, hist>>

\* exits with 0 also after an error
ExitStatusOnErrorZero == 1 - 1

\* line 138: sys.exit(1)
ExitStatusOnError == 1

\* line 135, and the end of the script: exit status 0
main_completed(t) ==
    /\ At(t, "main", "completed")
    /\ log' = log \cup {"completed"}
    /\ stack' = Popped(t)
    /\ exitCode' = <<0>>
    /\ outcome' = [outcome EXCEPT !["main"] = "returned"]
    /\ UNCHANGED <<entry, argv, exc, fut, fs, urls0, toolWrote, calls, checkRc,
                   hist>>

\* lines 136-138: except Exception
main_except(t) ==
    /\ Running(t)
    /\ exc[t] # "none"
    /\ Top(t).id = "main"
    /\ log' = log \cup {"spiderscan_error"}
    /\ exc' = [exc EXCEPT ![t] = "none"]
    /\ stack' = Popped(t)
    /\ exitCode' = <<ExitStatusOnError>>
    /\ outcome' = [outcome EXCEPT !["main"] = "SystemExit"]
    /\ UNCHANGED <<entry, argv, fut, fs, urls0, toolWrote, calls, checkRc, hist>>

----------------------------------------------------------------------------
(* The program *)

\* The file systems a run can start in: urls.txt can only be there if the
\* output directory is.
InitialFS ==
    {f \in [outDir : {"absent", "dir", "file"}, psDir : BOOLEAN, tplDir : BOOLEAN,
            temp : {Absent, StaleTemp}, urls : {Absent, StaleUrls},
            nucleiBin : BOOLEAN] :
        f.urls.exists => f.outDir = "dir"}

Init ==
    /\ entry \in Entries
    /\ argv \in SUBSET {"--domain"}
    /\ entry # "main" => argv = {}
    /\ stack = [t \in Threads |-> IF t = "main" THEN <<Frame(entry, "start")>> ELSE <<>>]
    /\ exc = [t \in Threads |-> "none"]
    /\ fut = [k \in Tasks |-> NoFuture]
    /\ fs \in InitialFS
    /\ urls0 = fs.urls
    /\ toolWrote = Absent
    /\ calls = [c \in Cmds |-> 0]
    /\ checkRc = <<>>
    /\ log = {}
    /\ exitCode = <<>>
    /\ hist = <<>>
    /\ outcome = [i \in Ids |-> "none"]

Next ==
    \E t \in Threads :
        \/ Return(t)
        \/ Unwind(t)
        \/ run_command_attempt(t)
        \/ run_command_wait(t)
        \/ check_dependency(t)
        \/ clone_repo(t)
        \/ collect_urls_start(t)
        \/ collect_urls_read(t)
        \/ collect_urls_write(t)
        \/ collect_urls_remove(t)
        \/ run_nuclei(t)
        \/ process_target_mkdir(t)
        \/ process_target_setup(t)
        \/ process_target_submit(t)
        \/ process_target_await(t)
        \/ process_target_shutdown(t)
        \/ \E k \in Tasks : worker_run(t, k)
        \/ main_start(t)
        \/ main_completed(t)
        \/ main_except(t)

Spec == Init /\ [][Next]_vars

\* Every statement of the program takes finitely long, an external process
\* included, and the interpreter keeps running a thread that can run:
\* while some step is possible, a step is taken.
FairSpec == Spec /\ WF_vars(Next)

----------------------------------------------------------------------------
(* Properties *)

\* the frames of calls of fn, as <<thread, index in the thread's stack>>
FramesOf(fn) ==
    UNION {{<<t, i>> : i \in {j \in 1..Len(stack[t]) : FnOf(stack[t][j].id) = fn}} :
           t \in Threads}

FrameAt(p) == stack[p[1]][p[2]]

\* every attempt recorded in a run_command frame ended with a non-zero status
AllFailed(f) ==
    \A i \in 1..Len(f.loc) : f.loc[i] \in {"wait", "nonzero"}

Raised(id) == outcome[id] \notin {"none", "returned"}

\* C1: a command that fails on every attempt is executed at most 3 times,
\* exactly 3 times once run_command is over, and run_command then ends by
\* raising the failure: it never returns normally.
C1_FailingCommandRaisedAfterThreeAttempts ==
    \A p \in FramesOf("run_command") :
        LET f == FrameAt(p)
        IN  /\ f.n <= 3
            /\ AllFailed(f) =>
                 /\ f.pc # "return"
                 /\ f.pc = "raise" <=> f.n = 3
                 /\ f.pc = "raise" =>
                      exc[p[1]] \in {"CalledProcessError", "UnicodeDecodeError"}

C1_Witness ==
    \E p \in FramesOf("run_command") :
        /\ AllFailed(FrameAt(p))
        /\ FrameAt(p).pc = "raise"
        /\ FrameAt(p).n = 3
        /\ exc[p[1]] = "CalledProcessError"

\* C2: a clone_repo that found its directory present hands no git clone to
\* run_command and leaves the directory in place; one that found it missing
\* hands the clone command to run_command, once.
C2_ExistingDirectoryNotCloned ==
    \A p \in FramesOf("clone_repo") :
        LET f == FrameAt(p)
        IN  f.pc # "start" =>
              IF f.loc[1]
              THEN /\ calls[CloneCmd(f.id)] = 0
                   /\ outcome[CloneCmd(f.id)] = "none"
                   /\ fs[CloneDir(f.id)]
                   /\ p[2] = Len(stack[p[1]])
              ELSE calls[CloneCmd(f.id)] = 1

C2_Witness ==
    \E p \in FramesOf("clone_repo") :
        /\ entry = "main"
        /\ FrameAt(p).pc = "return"
        /\ FrameAt(p).loc[1]
        /\ calls[CloneCmd(FrameAt(p).id)] = 0

\* C3: a run_nuclei that finds no URL list file raises FileNotFoundError and
\* logs it, and the scanner command is never handed to run_command.
C3_MissingUrlFileNoScan ==
    /\ \A p \in FramesOf("run_nuclei") :
          LET f == FrameAt(p)
          IN  f.pc # "start" /\ ~f.loc[1] =>
                /\ f.pc = "raise"
                /\ exc[p[1]] = "FileNotFoundError"
                /\ "url_file_not_found" \in log
                /\ calls["nuclei"] = 0
    /\ entry = "run_nuclei" /\ ~urls0.exists /\ ~Running("main") =>
          /\ outcome["run_nuclei"] = "FileNotFoundError"
          /\ exc["main"] = "FileNotFoundError"
          /\ calls["nuclei"] = 0
          /\ outcome["nuclei"] = "none"

C3_Witness ==
    /\ entry = "run_nuclei"
    /\ ~urls0.exists
    /\ fs.tplDir
    /\ fs.nucleiBin
    /\ outcome["run_nuclei"] = "FileNotFoundError"
    /\ "url_file_not_found" \in log

\* C4: once collect_urls has returned, if the discovery tool wrote to the
\* temporary file then urls.txt holds exactly the lines the tool wrote, in
\* order, whatever urls.txt held before.
C4_UrlsAreTheLinesWritten ==
    outcome["collect_urls"] = "returned" /\ toolWrote.exists =>
        /\ fs.urls.exists
        /\ Lines(fs.urls.data) = Lines(toolWrote.data)

C4_Witness ==
    /\ outcome["collect_urls"] = "returned"
    /\ toolWrote.exists
    /\ urls0.exists
    /\ Len(Lines(toolWrote.data)) = 2
    /\ Lines(fs.urls.data) # Lines(urls0.data)

IsPrefix(a, b) == Len(a) <= Len(b) /\ a = SubSeq(b, 1, Len(a))

StepsInOrder ==
    <<"mkdir", "clone_ParamSpider", "pip_install", "clone_templates",
      "check_dependency", "submit_collect", "collect_done", "submit_scan",
      "scan_done">>

\* C6: process_target takes its steps in the order mkdir, clone, pip
\* install, clone, dependency check, collection submitted and completed,
\* scan submitted and completed; the collection is submitted only when the
\* four setup calls have returned, and the scanner command is handed to
\* run_command only when the collection has completed without an exception.
C6_StepsInOrder ==
    entry = "main" =>
        /\ IsPrefix(hist, StepsInOrder)
        /\ fut["collect"].st # "none" =>
             /\ fs.outDir = "dir"
             /\ \A id \in {"clone_ParamSpider", "pip_install", "clone_templates",
                           "check_dependency"} : outcome[id] = "returned"
        /\ fut["scan"].st # "none" \/ calls["nuclei"] > 0 =>
             /\ fut["collect"] = [st |-> "done", exc |-> "none", on |-> "w1"]
             /\ outcome["collect_urls"] = "returned"
             /\ Len(hist) >= 7

C6_Witness ==
    /\ entry = "main"
    /\ hist = StepsInOrder
    /\ outcome["nuclei"] = "returned"

\* C7: at most one submitted task is unfinished and at most one pool thread
\* is running; the scan task exists only once the collection task is done.
C7_OneTaskAtATime ==
    /\ Cardinality({k \in Tasks : Unfinished(k)}) <= 1
    /\ Cardinality({t \in Workers : Running(t)}) <= 1
    /\ fut["scan"].st # "none" => fut["collect"].st = "done"

C7_Witness ==
    /\ fut["scan"].st = "running"
    /\ fut["collect"].st = "done"
    /\ \E t \in Workers : Running(t) /\ Top(t).id = "nuclei"

\* C8: the check command of check_dependency runs once and only once; the
\* install command is handed to run_command (once) exactly when the check
\* returned non-zero, and when the install succeeded check_dependency
\* returns without a second check, whether or not the tool is then there.
C8_CheckOnceInstallIfMissing ==
    /\ Len(checkRc) <= 1
    /\ outcome["check_dependency"] # "none" => Len(checkRc) = 1
    /\ calls["go_install"] = (IF checkRc # <<>> /\ checkRc[1] # 0 THEN 1 ELSE 0)
    /\ outcome["go_install"] = "returned" =>
         outcome["check_dependency"] \in {"none", "returned"}
    /\ Raised("check_dependency") => outcome["check_dependency"] = outcome["go_install"]

C8_Witness ==
    /\ outcome["check_dependency"] = "returned"
    /\ checkRc = <<127>>
    /\ calls["go_install"] = 1
    /\ ~fs.nucleiBin

\* C9: a run_nuclei that finds no template directory raises
\* FileNotFoundError and logs it, and never hands the scanner command to
\* run_command; it hands it over only when it found both the URL list file
\* and the template directory.
C9_MissingTemplatesNoScan ==
    /\ \A p \in FramesOf("run_nuclei") :
          LET f == FrameAt(p)
          IN  f.pc # "start" =>
                IF f.loc = <<TRUE, TRUE>>
                THEN calls["nuclei"] = 1 /\ f.pc = "return"
                ELSE /\ f.pc = "raise"
                     /\ exc[p[1]] = "FileNotFoundError"
                     /\ calls["nuclei"] = 0
                     /\ f.loc[1] => "template_directory_not_found" \in log
                     /\ log \cap {"url_file_not_found", "template_directory_not_found"} # {}
    /\ calls["nuclei"] > 0 /\ entry = "run_nuclei" => urls0.exists /\ fs.tplDir

C9_Witness ==
    /\ entry = "run_nuclei"
    /\ urls0.exists
    /\ ~fs.tplDir
    /\ fs.nucleiBin
    /\ outcome["run_nuclei"] = "FileNotFoundError"
    /\ log = {"template_directory_not_found"}
    /\ calls["nuclei"] = 0

\* C10: when run_command raises for the discovery tool, collect_urls ends
\* with that exception, urls.txt is what it was at the start, and no scan
\* task is submitted and no scanner command run.
C10_DiscoveryFailureStopsTheRun ==
    Raised("paramspider") =>
        /\ fs.urls = urls0
        /\ outcome["collect_urls"] \in {"none", outcome["paramspider"]}
        /\ \A p \in FramesOf("collect_urls") :
              /\ FrameAt(p).pc = "read"
              /\ exc[p[1]] = outcome["paramspider"]
        /\ fut["scan"].st = "none"
        /\ calls["nuclei"] = 0
        /\ entry = "main" /\ exitCode # <<>> => exitCode = <<1>>

C10_Witness ==
    /\ entry = "main"
    /\ outcome["paramspider"] = "CalledProcessError"
    /\ outcome["collect_urls"] = "CalledProcessError"
    /\ outcome["process_target"] = "CalledProcessError"
    /\ urls0.exists
    /\ fs.temp.exists
    /\ toolWrote.exists

\* the scan step is under way or over: the scan task has been submitted, or
\* run_nuclei is the function the thread was started with
ScanStepBegun == fut["scan"].st # "none" \/ entry = "run_nuclei"

\* C11: from the moment the scan step begins nothing on disk changes, so
\* when it fails in an orchestrated run the urls.txt that the collection
\* wrote is still there, with the lines the tool produced, the temporary
\* file is gone, and the run exits with 1.
C11_ScanFailureLeavesUrls ==
    /\ [][ScanStepBegun => fs' = fs]_vars
    /\ [](entry = "main" /\ Raised("run_nuclei") =>
            /\ fs.urls.exists
            /\ ~fs.temp.exists
            /\ toolWrote.exists => Lines(fs.urls.data) = Lines(toolWrote.data)
            /\ outcome["collect_urls"] = "returned"
            /\ exitCode \in {<<>>, <<1>>})

C11_Witness ==
    /\ entry = "main"
    /\ outcome["run_nuclei"] = "CalledProcessError"
    /\ exitCode = <<1>>
    /\ fs.urls.exists
    /\ fs.urls # urls0
    /\ toolWrote.exists

\* C12: a file is there when it is read: temp_urls.txt when collect_urls
\* is about to open it, and urls.txt and the template directory whenever
\* the scanner command is about to run.
C12_FilesExistWhenRead ==
    \A t \in Threads :
        /\ At(t, "collect_urls", "read") => fs.temp.exists
        /\ At(t, "run_command", "start") /\ Top(t).id = "nuclei" =>
             fs.urls.exists /\ fs.tplDir

\* C13: once collect_urls has returned there is no temp_urls.txt; the file
\* disappears only in the remove step of collect_urls, when urls.txt already
\* holds its lines; and a collect_urls that raised has left the file the
\* discovery tool wrote where it was.
C13_TempRemovedOnlyAfterWrite ==
    /\ [](outcome["collect_urls"] = "returned" => ~fs.temp.exists)
    /\ [][fs.temp.exists /\ ~fs'.temp.exists =>
            /\ \E t \in Threads : At(t, "collect_urls", "remove")
            /\ fs.urls.exists
            /\ Lines(fs.urls.data) = Lines(fs.temp.data)
            /\ fs'.urls = fs.urls]_vars
    /\ [](Raised("collect_urls") /\ toolWrote.exists => fs.temp = toolWrote)
    /\ [](Raised("collect_urls") => fs.urls = urls0)

C13_Witness ==
    /\ outcome["paramspider"] = "returned"
    /\ outcome["collect_urls"] = "FileNotFoundError"
    /\ fs.outDir = "absent"
    /\ toolWrote.exists
    /\ fs.temp = toolWrote

\* the waits recorded in a run_command frame lie between two attempts, one
\* between each two, and an attempt that is the third is followed by none
WaitsBetweenAttempts(f) ==
    /\ \A i \in 1..Len(f.loc) :
          IF i % 2 = 0 THEN f.loc[i] = "wait" ELSE f.loc[i] # "wait"
    /\ f.pc = "start" <=> Len(f.loc) % 2 = 0
    /\ f.n = (Len(f.loc) + 1) \div 2
    /\ f.n = 3 => f.pc # "wait" /\ Len(f.loc) = 5

\* no wait follows an attempt whose command exited with status zero
NoWaitAfterSuccess(f) ==
    \A i \in 1..Len(f.loc) :
        f.loc[i] = "zero" => i = Len(f.loc) /\ f.pc # "wait"

\* C14: in every call of run_command the waits are exactly those between
\* two consecutive attempts: none before the first attempt, none after an
\* attempt that succeeded, none after the third attempt.
C14_WaitsOnlyBetweenAttempts ==
    \A p \in FramesOf("run_command") :
        /\ WaitsBetweenAttempts(FrameAt(p))
        /\ NoWaitAfterSuccess(FrameAt(p))

\* the run_command frames of command c
CommandFrames(c) == {p \in FramesOf("run_command") : FrameAt(p).id = c}

\* thread t executes the command of its run_command frame in this step
Executes(t) ==
    /\ At(t, "run_command", "start")
    /\ stack'[t][Len(stack[t])].n = Top(t).n + 1

\* C15: a run of process_target comes to an end, by returning or by
\* raising, and executes each runner command at most 3 times and the
\* dependency check at most once: each command is handed to run_command at
\* most once, a call makes at most 3 attempts, and a command is executed
\* only as an attempt of that one call.
C15_TerminatesWithinBound ==
    /\ [](\A c \in Cmds :
            /\ calls[c] <= 1
            /\ Cardinality(CommandFrames(c)) <= calls[c]
            /\ outcome[c] # "none" => calls[c] = 1 /\ CommandFrames(c) = {}
            /\ \A p \in CommandFrames(c) : FrameAt(p).n <= 3)
    /\ [](Len(checkRc) <= 1)
    /\ [][\A t \in Threads :
            Executes(t) =>
                /\ stack'[t][Len(stack[t])].n <= 3
                /\ calls[Top(t).id] = 1
                /\ outcome[Top(t).id] = "none"]_vars
    /\ <>(\A t \in Threads : ~Running(t))
    /\ []((\A t \in Threads : ~Running(t)) /\ entry = "main" /\ "--domain" \in argv =>
            outcome["process_target"] # "none")

C15_Witness ==
    /\ entry = "main"
    /\ \A t \in Threads : ~Running(t)
    /\ \A c \in Cmds : calls[c] = 1
    /\ checkRc = <<127>>
    /\ outcome["nuclei"] = "UnicodeDecodeError"
    /\ outcome["process_target"] = "UnicodeDecodeError"

\* C16: in every call of run_command the first attempt whose command
\* exits with status zero is the last one: the command is run no further
\* time, and run_command returns without an exception.
C16_StopsAtFirstSuccess ==
    \A p \in FramesOf("run_command") :
        LET f == FrameAt(p)
        IN  \A i \in 1..Len(f.loc) :
                f.loc[i] = "zero" =>
                    /\ i = Len(f.loc)
                    /\ f.n = (i + 1) \div 2
                    /\ f.pc = "return"
                    /\ exc[p[1]] = "none"

\* the commands of the setup steps, and for each the number of steps of
\* process_target begun when it runs
SetupCommands == {"git_clone_ParamSpider", "pip_install", "git_clone_templates",
                  "go_install"}

SetupStep(c) ==
    CHOOSE i \in 1..Len(StepsInOrder) :
        StepsInOrder[i] = (IF c = "git_clone_ParamSpider" THEN "clone_ParamSpider"
                           ELSE IF c = "git_clone_templates" THEN "clone_templates"
                           ELSE IF c = "go_install" THEN "check_dependency"
                           ELSE c)

\* C17: when the command of a setup step of process_target has failed
\* after its retries, no step after that one is begun: no later setup
\* command, no discovery and no scanner command is handed to run_command,
\* no task is submitted, urls.txt is what it was, and the run exits with 1.
C17_SetupFailureStopsTheRun ==
    entry = "main" =>
        \A c \in SetupCommands :
            Raised(c) =>
                /\ hist = SubSeq(StepsInOrder, 1, SetupStep(c))
                /\ \A d \in SetupCommands : SetupStep(d) > SetupStep(c) => calls[d] = 0
                /\ SetupStep(c) < SetupStep("go_install") => checkRc = <<>>
                /\ calls["paramspider"] = 0
                /\ calls["nuclei"] = 0
                /\ \A k \in Tasks : fut[k] = NoFuture
                /\ \A t \in Workers : ~Running(t)
                /\ fs.urls = urls0
                /\ toolWrote = Absent
                /\ outcome["process_target"] \in {"none", outcome[c]}
                /\ exitCode \in {<<>>, <<1>>}

C17_Witness ==
    /\ entry = "main"
    /\ outcome["go_install"] = "CalledProcessError"
    /\ outcome["process_target"] = "CalledProcessError"
    /\ exitCode = <<1>>
    /\ urls0.exists
    /\ fs.psDir /\ fs.tplDir

\* C18 as claimed: in every run of process_target the pip install is handed
\* to run_command.
C18_Original ==
    entry = "main" /\ "--domain" \in argv => <>(calls["pip_install"] = 1)

\* C18, amended: in every run of process_target in which the mkdir and the
\* first clone_repo did not raise, the pip install is handed to run_command
\* next, whether clone_repo cloned or found the directory and skipped the
\* clone; in a run in which one of them raised it never is.
C18_PipInstallAfterClone ==
    /\ (entry = "main" /\ outcome["clone_ParamSpider"] = "returned")
           ~> (calls["pip_install"] = 1)
    /\ [](entry = "main" /\ calls["pip_install"] > 0 =>
            /\ outcome["clone_ParamSpider"] = "returned"
            /\ calls["pip_install"] = 1)
    /\ [](entry = "main" /\ Len(hist) > 2 => calls["pip_install"] = 1)
    /\ [](entry = "main" /\ "--domain" \in argv /\ (\A t \in Threads : ~Running(t))
             /\ calls["pip_install"] = 0 =>
               \/ outcome["process_target"] = "FileExistsError"
               \/ Raised("clone_ParamSpider"))

C18_Witness ==
    /\ entry = "main"
    /\ outcome["clone_ParamSpider"] = "returned"
    /\ calls["git_clone_ParamSpider"] = 0
    /\ calls["pip_install"] = 1
    /\ outcome["pip_install"] = "returned"

====
